---- MODULE Spec2Model ----
(***************************************************************************)
(* Model of backend/agent-python/agent.py: the per-agent HTTP service.     *)
(*                                                                         *)
(* Strings are sequences of tokens (a token is a character or a literal    *)
(* piece of text), so concatenation is \o and the empty string is <<>>.    *)
(* Python values that the handlers test for truthiness or None are tagged  *)
(* records built by PyNone, PyStr, PyInt and PyBool.  A dict is a function *)
(* whose DOMAIN is the set of keys present.                                *)
(***************************************************************************)
EXTENDS Integers, Sequences, FiniteSets, TLC

\* ------------------------------------------------------------------ bounds

\* handleMessage requests that may be in flight or finished
NumReq == 2
\* largest value of the wall clock, in seconds
MaxClock == 1
\* handleMessage calls that completed before this process started
PriorCalls == 5
\* setFact / getFact calls issued in one behaviour
MaxFactOps == 3

\* ------------------------------------------------------- program constants

\* r.lrange(key, 0, 9): the last index read back
LrangeStop == 9

\* ------------------------------------------------------------ Python values

PyNone == [t |-> "none"]
PyStr(s) == [t |-> "str", s |-> s]
PyInt(n) == [t |-> "int", n |-> n]
PyBool(b) == [t |-> "bool", b |-> b]

EmptyDict == [k \in {} |-> 0]

\* dict.get(key): the value, or None when the key is absent
DictGet(d, k) == IF k \in DOMAIN d THEN d[k] ELSE PyNone

\* dict.get(key, default) on the decoded configuration
DictGetDefault(d, k, default) == IF k \in DOMAIN d THEN d[k] ELSE default

\* faulty variant of NotTruthy: "x is None" in place of "not x"
NotTruthyWrong(v) == v = PyNone

\* Python truthiness as used by "if not x"

NotTruthy(v) ==
    \/ v = PyNone
    \/ v.t = "str" /\ v.s = <<>>
    \/ v.t = "int" /\ v.n = 0
    \/ v.t = "bool" /\ v.b = FALSE

\* str(x) as an f-string renders it
PyRender(v) ==
    CASE v.t = "str" -> v.s
      [] v.t = "int" -> IF v.n = 0 THEN <<"0">> ELSE <<"1">>
      [] v.t = "bool" -> IF v.b THEN <<"True">> ELSE <<"False">>
      [] OTHER -> <<"None">>

\* sep.join(parts)
RECURSIVE StrJoin(_, _)
StrJoin(sep, parts) ==
    IF parts = <<>> THEN <<>>
    ELSE IF Len(parts) = 1 THEN parts[1]
    ELSE parts[1] \o sep \o StrJoin(sep, Tail(parts))

\* faulty variant of Lrange: the stop index read as exclusive of one more
LrangeOneMore(l, start, stop) ==
    SubSeq(l, start + 1, IF Len(l) < stop + 2 THEN Len(l) ELSE stop + 2)

\* LRANGE key start stop with 0 <= start <= stop: both ends inclusive,
\* cut at the end of the list
Lrange(l, start, stop) ==
    SubSeq(l, start + 1, IF Len(l) < stop + 1 THEN Len(l) ELSE stop + 1)

\* LPUSH key x: x becomes the head of the list
Lpush(l, x) == << x >> \o l

\* ------------------------------------------------------------ configuration

\* os.environ.get('AGENT_ID', 'unknown'): the default identity
DefaultAgentId == <<"unknown">>

\* decoded AGENT_CONFIG values: absent, the spec's scenario, several tools
\* one of them without a name and no systemPrompt
Configs ==
    { EmptyDict,
      [systemPrompt |-> <<"Be helpful">>, tools |-> << [name |-> <<"search">>] >>],
      [tools |-> << [name |-> <<"search">>], EmptyDict, [name |-> <<"calc">>] >>] }

\* JSON bodies of POST /message
MessageBodies ==
    { EmptyDict,
      [message |-> PyNone],
      [message |-> PyStr(<<>>)],
      [message |-> PyStr(<<"hi">>)] }

Reqs == 1 .. NumReq
Procs == {1, 2}

VARIABLES
    AGENT_ID,      \* agent identity of this deployment
    AGENT_CONFIG,  \* decoded configuration
    procs,         \* service processes running with this identity
    now,           \* wall clock, int(time.time())
    log,           \* the Redis list agent:{AGENT_ID}:messages, head first
    who,           \* history variable: who[i] = <<request, role>> of log[i]
    pc,            \* per request: position in message_endpoint
    proc,          \* per request: the process serving it
    data,          \* per request: the JSON body
    history,       \* per request: the local variable history
    histWho,       \* history variable: the owners of the entries of history
    response,      \* per request: the local variable response
    result,        \* per request: what the HTTP caller gets
    before,        \* history variable: Len(log) when the handler resumed
    afterUser,     \* history variable: the log right after the user push
    faultAt,       \* history variable: the store call that failed
    facts,         \* the remote backend's long-term store: <<agentId, key>> -> value
    factOps,       \* number of /fact calls served so far
    lastOp,        \* the last /fact call: its input, what was sent, what came back
    factResult,    \* what the caller of the last /fact call got
    expect         \* history variable: per key, the value of the last stored setFact

msgVars == << now, log, who, pc, proc, data, history, histWho, response,
              result, before, afterUser, faultAt >>

factVars == << facts, factOps, lastOp, factResult, expect >>

agent_context == DictGetDefault(AGENT_CONFIG, "systemPrompt", <<>>)
agent_tools == DictGetDefault(AGENT_CONFIG, "tools", <<>>)

\* ------------------------------------------------------------ message records

UserRecord(message, ts) ==
    [role |-> "user", content |-> message, timestamp |-> ts]

ToolNames(tools) == [i \in 1 .. Len(tools) |-> DictGetDefault(tools[i], "name", <<>>)]

\* faulty variant of Content: the context line left out
ContentNoContext(message, context, tools) ==
    <<"Echo: ">> \o PyRender(message) \o <<"\nTools: ">>
        \o StrJoin(<<", ">>, ToolNames(tools))

\* the f-string of the response's content
Content(message, context, tools) ==
    <<"Echo: ">> \o PyRender(message) \o <<"\nContext: ">> \o context
        \o <<"\nTools: ">> \o StrJoin(<<", ">>, ToolNames(tools))

\* faulty variant of AgentRecord: stamped with the time of the oldest entry
\* of its memory
AgentRecordStale(message, hist, ts) ==
    [role |-> "agent",
     content |-> Content(message, agent_context, agent_tools),
     timestamp |-> IF hist = <<>> THEN ts ELSE hist[Len(hist)].timestamp,
     memory |-> hist]

\* the dict built at "response = {...}"
AgentRecord(message, hist, ts) ==
    [role |-> "agent",
     content |-> Content(message, agent_context, agent_tools),
     timestamp |-> ts,
     memory |-> hist]

MissingMessage == [error |-> <<"Missing message">>]
NoResult == [pending |-> TRUE]

\* the log left by n earlier calls that ran one after the other at time 0,
\* under a configuration cfg and with message "old"
RECURSIVE PriorLog(_, _)
PriorLog(n, cfg) ==
    IF n = 0 THEN <<>>
    ELSE LET l0 == PriorLog(n - 1, cfg)
             l1 == Lpush(l0, UserRecord(PyStr(<<"old">>), 0))
             rsp == [role |-> "agent",
                     content |-> Content(PyStr(<<"old">>),
                                         DictGetDefault(cfg, "systemPrompt", <<>>),
                                         DictGetDefault(cfg, "tools", <<>>)),
                     timestamp |-> 0,
                     memory |-> Lrange(l1, 0, LrangeStop)]
         IN Lpush(l1, rsp)

\* owners of the records of PriorLog(n, cfg): request 0 stands for all of them
PriorWho(n) == [i \in 1 .. 2 * n |-> << 0, IF i % 2 = 1 THEN "agent" ELSE "user" >>]

\* ------------------------------------------------------------ POST /message

\* faulty variant of Busy: the handler yields between its store calls
BusyNever(p) == FALSE

\* faulty variant of Busy: one lock over all processes of the identity
BusyAnywhere(p) == \E r \in Reqs : pc[r] \in {"pushed", "read", "built"}

\* the event loop of process p is inside a handler's synchronous section:
\* between the return of "await req.json()" and the handler's return there
\* is no await, so no other coroutine of the same process runs
Busy(p) == \E r \in Reqs : proc[r] = p /\ pc[r] \in {"pushed", "read", "built"}

\* message = data.get('message')
MessageOf(r) == DictGet(data[r], "message")

\* the coroutine of request r can resume after "await req.json()"
CanResume(r) == pc[r] = "await" /\ ~Busy(proc[r])

\* faulty variant of LogAfterFault: the request's user push is undone
LogAfterFaultRollback(l, r) ==
    IF l # <<>> /\ pc[r] \in {"pushed", "built"} THEN Tail(l) ELSE l

\* what a store failure leaves of the list: the call raises, nothing is undone
LogAfterFault(l, r) == l

\* what the caller gets when a store call raises: nothing in-band
FaultResult == [fault |-> TRUE]

\* a request arrives at process p with JSON body d and suspends in
\* "await req.json()"; requests are numbered in their order of arrival
Receive(r, p, d) ==
    /\ pc[r] = "idle"
    /\ \A q \in Reqs : q < r => pc[q] # "idle"
    /\ p \in procs
    /\ pc' = [pc EXCEPT ![r] = "await"]
    /\ proc' = [proc EXCEPT ![r] = p]
    /\ data' = [data EXCEPT ![r] = d]
    /\ UNCHANGED << AGENT_ID, AGENT_CONFIG, procs, now, log, who, history, histWho,
                    response, result, before, afterUser, faultAt, factVars >>

\* if not message: return {"error": "Missing message"}
Reject(r) ==
    /\ CanResume(r)
    /\ NotTruthy(MessageOf(r))
    /\ pc' = [pc EXCEPT ![r] = "done"]
    /\ result' = [result EXCEPT ![r] = MissingMessage]
    /\ UNCHANGED << AGENT_ID, AGENT_CONFIG, procs, now, log, who, proc, data, history,
                    histWho, response, before, afterUser, faultAt, factVars >>

\* r.lpush(key, json.dumps({'role': 'user', ...}))
PushUser(r) ==
    /\ CanResume(r)
    /\ ~NotTruthy(MessageOf(r))
    /\ log' = Lpush(log, UserRecord(MessageOf(r), now))
    /\ who' = Lpush(who, << r, "user" >>)
    /\ before' = [before EXCEPT ![r] = Len(log)]
    /\ afterUser' = [afterUser EXCEPT ![r] = log']
    /\ pc' = [pc EXCEPT ![r] = "pushed"]
    /\ UNCHANGED << AGENT_ID, AGENT_CONFIG, procs, now, proc, data, history, histWho,
                    response, result, faultAt, factVars >>

\* history = [json.loads(x) for x in r.lrange(key, 0, 9)]
ReadHistory(r) ==
    /\ pc[r] = "pushed"
    /\ history' = [history EXCEPT ![r] = Lrange(log, 0, LrangeStop)]
    /\ histWho' = [histWho EXCEPT ![r] = Lrange(who, 0, LrangeStop)]
    /\ pc' = [pc EXCEPT ![r] = "read"]
    /\ UNCHANGED << AGENT_ID, AGENT_CONFIG, procs, now, log, who, proc, data, response,
                    result, before, afterUser, faultAt, factVars >>

\* response = {'role': 'agent', 'content': ..., 'timestamp': ..., 'memory': history}
BuildResponse(r) ==
    /\ pc[r] = "read"
    /\ response' = [response EXCEPT ![r] = AgentRecord(MessageOf(r), history[r], now)]
    /\ pc' = [pc EXCEPT ![r] = "built"]
    /\ UNCHANGED << AGENT_ID, AGENT_CONFIG, procs, now, log, who, proc, data, history,
                    histWho, result, before, afterUser, faultAt, factVars >>

\* r.lpush(key, json.dumps(response)); return response
PushAgent(r) ==
    /\ pc[r] = "built"
    /\ log' = Lpush(log, response[r])
    /\ who' = Lpush(who, << r, "agent" >>)
    /\ result' = [result EXCEPT ![r] = response[r]]
    /\ pc' = [pc EXCEPT ![r] = "done"]
    /\ UNCHANGED << AGENT_ID, AGENT_CONFIG, procs, now, proc, data, history, histWho,
                    response, before, afterUser, faultAt, factVars >>

\* the resumption of request r after "await req.json()": the validation and,
\* for a truthy message, the user push
PushUserOrReject(r) == Reject(r) \/ PushUser(r)

\* a store call (the user push, the history read or the agent push) raises:
\* nothing catches it in message_endpoint
StoreFault(r) ==
    /\ \/ CanResume(r) /\ ~NotTruthy(MessageOf(r))
       \/ pc[r] \in {"pushed", "built"}
    /\ faultAt' = [faultAt EXCEPT ![r] =
                       CASE pc[r] = "await" -> "userPush"
                         [] pc[r] = "pushed" -> "historyRead"
                         [] OTHER -> "agentPush"]
    /\ log' = LogAfterFault(log, r)
    /\ who' = IF log' = log THEN who ELSE Tail(who)
    /\ result' = [result EXCEPT ![r] = FaultResult]
    /\ pc' = [pc EXCEPT ![r] = "fault"]
    /\ UNCHANGED << AGENT_ID, AGENT_CONFIG, procs, now, proc, data, history, histWho,
                    response, before, afterUser, factVars >>

\* the wall clock advances
Tick ==
    /\ now < MaxClock
    /\ now' = now + 1
    /\ UNCHANGED << AGENT_ID, AGENT_CONFIG, procs, log, who, pc, proc, data, history,
                    histWho, response, result, before, afterUser, faultAt, factVars >>


\* ------------------------------------------------------------ /fact/set, /fact/get

\* os.environ.get('BACKEND_URL', 'http://host.docker.internal:4000')
backend_url == <<"http://host.docker.internal:4000">>

\* keys used in /fact calls; "?" is a character of the key
FactKeys == { <<"a">>, <<"a", "?">> }

\* JSON bodies of POST /fact/set: each field absent, null, falsy or a value
SetBodyKeys == { PyNone, PyStr(<<>>), PyInt(0) } \cup { PyStr(k) : k \in FactKeys }
SetBodyValues == { PyNone, PyInt(0), PyBool(FALSE), PyStr(<<>>), PyStr(<<"v">>) }
SetBodies ==
    { [key |-> k, value |-> v] : k \in SetBodyKeys, v \in SetBodyValues }
        \cup { [key |-> k] : k \in SetBodyKeys }
        \cup { [value |-> v] : v \in SetBodyValues }
        \cup { EmptyDict }

\* HTTP response bodies
BodyText == [kind |-> "text"]
BodyList == [kind |-> "list"]
BodyObject(obj) == [kind |-> "object", obj |-> obj]

Down == [kind |-> "down"]
Http(status, body) == [kind |-> "http", status |-> status, body |-> body]

\* how the backend treats one call: unreachable, serving it as its interface
\* says, or answering with a status and body of its own
BackendModes ==
    { [mode |-> "down"], [mode |-> "served"] }
        \cup { [mode |-> "reply", reply |-> r] :
                 r \in { Http(200, BodyText), Http(200, BodyList),
                         Http(200, BodyObject(EmptyDict)),
                         Http(304, BodyText),
                         Http(304, BodyObject([value |-> PyStr(<<"z">>)])),
                         Http(404, BodyText), Http(500, BodyText) } }

\* requests.post(f"{backend_url}/api/longterm/set", json={...})
SetRequest(key, value) ==
    [url |-> backend_url \o <<"/api/longterm/set">>,
     json |-> [agentId |-> AGENT_ID, key |-> key, value |-> value]]

\* f"{backend_url}/api/longterm/get/{AGENT_ID}/{key}"
GetUrl(key) ==
    backend_url \o <<"/api/longterm/get/">> \o AGENT_ID \o <<"/">> \o key

\* the part of a URL's token sequence before its query or fragment
RECURSIVE UrlPath(_)
UrlPath(u) ==
    IF u = <<>> \/ Head(u) \in {"?", "#"} THEN <<>>
    ELSE << Head(u) >> \o UrlPath(Tail(u))

\* a path split at "/" into its segments
RECURSIVE SplitSlash(_, _)
SplitSlash(u, cur) ==
    IF u = <<>> THEN << cur >>
    ELSE IF Head(u) = "/" THEN << cur >> \o SplitSlash(Tail(u), <<>>)
    ELSE SplitSlash(Tail(u), cur \o << Head(u) >>)

FactsGet(f, a, k) == IF << a, k >> \in DOMAIN f THEN f[<< a, k >>] ELSE PyNone

\* backend: POST /api/longterm/set with {agentId, key, value} stores the fact
BackendStore(f, j) ==
    [x \in DOMAIN f \cup { << j.agentId, j.key.s >> } |->
        IF x = << j.agentId, j.key.s >> THEN j.value ELSE f[x]]

\* backend: GET /api/longterm/get/{agentId}/{key} answers {value}
BackendGetReply(f, url) ==
    LET segs == SplitSlash(UrlPath(SubSeq(url, 3, Len(url))), <<>>)
    IN IF Len(url) >= 2 /\ url[1] = backend_url[1] /\ url[2] = "/api/longterm/get/"
            /\ Len(segs) = 2 /\ segs[1] # <<>> /\ segs[2] # <<>>
       THEN Http(200, BodyObject([value |-> FactsGet(f, segs[1], segs[2])]))
       ELSE Http(404, BodyText)

\* what the call gets back from the backend in mode e
ReplyOf(e, served) ==
    CASE e.mode = "down" -> Down
      [] e.mode = "served" -> served
      [] OTHER -> e.reply

\* the outcome of a try block: a returned value or a raised exception
Return(v) == [raised |-> FALSE, value |-> v]
Raise(name, msg) == [raised |-> TRUE, exc |-> name, msg |-> msg]

\* faulty variant of RaiseForStatus: only a 5xx status raises
RaiseForStatusServerOnly(status) == 500 <= status /\ status < 600

\* resp.raise_for_status(): HTTPError for a 4xx or 5xx status
RaiseForStatus(status) == 400 <= status /\ status < 600

HttpErrorText(status) ==
    IF status < 500 THEN <<"404", " Client Error">> ELSE <<"500", " Server Error">>

\* the try block of set_fact
SetFactTry(reply) ==
    IF reply.kind = "down"
    THEN Raise("ConnectionError", <<"Connection refused">>)
    ELSE IF RaiseForStatus(reply.status)
    THEN Raise("HTTPError", HttpErrorText(reply.status))
    ELSE Return([status |-> <<"ok">>])

\* the try block of get_fact
GetFactTry(reply) ==
    IF reply.kind = "down"
    THEN Raise("ConnectionError", <<"Connection refused">>)
    ELSE IF RaiseForStatus(reply.status)
    THEN Raise("HTTPError", HttpErrorText(reply.status))
    ELSE IF reply.body.kind = "text"
    THEN Raise("JSONDecodeError", <<"Expecting value">>)
    ELSE IF reply.body.kind # "object"
    THEN Raise("AttributeError", <<"'list' object has no attribute 'get'">>)
    ELSE Return([value |-> DictGet(reply.body.obj, "value")])

\* except Exception as e: return {"error": str(e)}
ExceptException(outcome) ==
    IF outcome.raised THEN [error |-> outcome.msg] ELSE outcome.value

\* faulty variant of IsNone: "not value" in place of "value is None"
IsNoneOrFalsy(v) == NotTruthy(v)

\* value is None
IsNone(v) == v = PyNone

MissingKeyOrValue == [error |-> <<"Missing key or value">>]

NoOp == [op |-> "none"]
Unknown == [unknown |-> TRUE]

\* the validation of set_fact: if not key or value is None
SetInvalid(d) == NotTruthy(DictGet(d, "key")) \/ IsNone(DictGet(d, "value"))

\* POST /fact/set with a JSON body d that fails the validation
SetFactInvalid(d) ==
    /\ factOps < MaxFactOps
    /\ SetInvalid(d)
    /\ factOps' = factOps + 1
    /\ factResult' = MissingKeyOrValue
    /\ lastOp' = [op |-> "set", body |-> d, sent |-> <<>>, reply |-> <<>>,
                  served |-> FALSE]
    /\ UNCHANGED << facts, expect, AGENT_ID, AGENT_CONFIG, procs, msgVars >>

\* POST /fact/set with a JSON body d that passes it, the backend in mode e
SetFact(d, e) ==
    LET key == DictGet(d, "key")
        value == DictGet(d, "value")
        req == SetRequest(key, value)
        stores == e.mode = "served"
        reply == ReplyOf(e, Http(200, BodyObject([success |-> PyBool(TRUE)])))
        res == ExceptException(SetFactTry(reply))
    IN /\ factOps < MaxFactOps
       /\ ~SetInvalid(d)
       /\ factOps' = factOps + 1
       /\ facts' = IF stores THEN BackendStore(facts, req.json) ELSE facts
       /\ factResult' = res
       /\ lastOp' = [op |-> "set", body |-> d, sent |-> << req >>,
                     reply |-> << reply >>, served |-> stores]
       /\ expect' = IF key.t # "str" \/ key.s \notin FactKeys THEN expect
                    ELSE IF stores THEN [expect EXCEPT ![key.s] = value]
                    ELSE IF res = [status |-> <<"ok">>]
                    THEN [expect EXCEPT ![key.s] = Unknown]
                    ELSE expect
       /\ UNCHANGED << AGENT_ID, AGENT_CONFIG, procs, msgVars >>

\* GET /fact/get/{key} while the backend is in mode e
GetFact(key, e) ==
    LET url == GetUrl(key)
        reply == ReplyOf(e, BackendGetReply(facts, url))
    IN /\ factOps < MaxFactOps
       /\ factOps' = factOps + 1
       /\ factResult' = ExceptException(GetFactTry(reply))
       /\ lastOp' = [op |-> "get", key |-> key, sent |-> << url >>,
                     reply |-> << reply >>, served |-> e.mode = "served"]
       /\ UNCHANGED << facts, expect, AGENT_ID, AGENT_CONFIG, procs, msgVars >>

vars == << AGENT_ID, AGENT_CONFIG, procs, now, log, who, pc, proc, data, history,
           histWho, response, result, before, afterUser, faultAt, facts, factOps,
           lastOp, factResult, expect >>

InitRequests ==
    /\ now = 0
    /\ pc = [r \in Reqs |-> "idle"]
    /\ proc = [r \in Reqs |-> 0]
    /\ data = [r \in Reqs |-> EmptyDict]
    /\ history = [r \in Reqs |-> <<>>]
    /\ histWho = [r \in Reqs |-> <<>>]
    /\ response = [r \in Reqs |-> NoResult]
    /\ result = [r \in Reqs |-> NoResult]
    /\ before = [r \in Reqs |-> 0]
    /\ afterUser = [r \in Reqs |-> <<>>]
    /\ faultAt = [r \in Reqs |-> "none"]

\* no /fact call has been made; the backend holds a fact of another agent
InitFacts ==
    /\ facts = [x \in { << <<"w">>, <<"a">> >> } |-> PyStr(<<"other">>)]
    /\ factOps = 0
    /\ lastOp = NoOp
    /\ factResult = NoResult
    /\ expect = [k \in FactKeys |-> Unknown]

\* module level of agent.py: the configuration decoded from the environment;
\* the Redis list holds what earlier calls left
InitConfig ==
    /\ AGENT_ID = DefaultAgentId
    /\ AGENT_CONFIG \in Configs
    /\ \E n \in {0, PriorCalls} :
          /\ log = PriorLog(n, AGENT_CONFIG)
          /\ who = PriorWho(n)

\* two service processes run with the same identity on an empty list
Init ==
    /\ AGENT_ID = DefaultAgentId
    /\ AGENT_CONFIG = EmptyDict
    /\ log = <<>>
    /\ who = <<>>
    /\ procs = Procs
    /\ InitRequests
    /\ InitFacts

\* one uvicorn process serves the identity (uvicorn.run in __main__)
InitOneProc ==
    /\ InitConfig
    /\ procs = {1}
    /\ InitRequests
    /\ InitFacts

\* the service before its first /fact call
InitFactCalls ==
    /\ AGENT_ID = DefaultAgentId
    /\ AGENT_CONFIG = EmptyDict
    /\ log = <<>>
    /\ who = <<>>
    /\ procs = {1}
    /\ InitRequests
    /\ InitFacts

Next ==
    \/ \E r \in Reqs, p \in Procs, d \in MessageBodies : Receive(r, p, d)
    \/ \E r \in Reqs : Reject(r)
    \/ \E r \in Reqs : PushUser(r)
    \/ \E r \in Reqs : ReadHistory(r)
    \/ \E r \in Reqs : BuildResponse(r)
    \/ \E r \in Reqs : PushAgent(r)
    \/ \E r \in Reqs : StoreFault(r)
    \/ Tick

Spec == Init /\ [][Next]_vars

SpecOneProc == InitOneProc /\ [][Next]_vars

\* the /fact handlers share no state with message_endpoint (the list lives in
\* Redis, the facts in the backend), so their calls are explored on their own
NextFacts ==
    \/ \E d \in SetBodies : SetFactInvalid(d)
    \/ \E d \in SetBodies, e \in BackendModes : SetFact(d, e)
    \/ \E k \in FactKeys, e \in BackendModes : GetFact(k, e)

SpecFacts == InitFactCalls /\ [][NextFacts]_vars

\* ------------------------------------------------------------ claims: /fact

KeyAbsentOrNull(d) == "key" \notin DOMAIN d \/ d.key = PyNone
ValueAbsentOrNull(d) == "value" \notin DOMAIN d \/ d.value = PyNone
KeyEmpty(d) ==
    "key" \in DOMAIN d /\ d.key \in { PyStr(<<>>), PyInt(0), PyBool(FALSE) }
ValidationErrorReturned == factResult = MissingKeyOrValue /\ lastOp.sent = <<>>
Forwarded(d) ==
    lastOp.sent = << [url |-> <<"http://host.docker.internal:4000", "/api/longterm/set">>,
                      json |-> [agentId |-> AGENT_ID, key |-> d.key, value |-> d.value]] >>

\* C3 as stated: setFact returns {"error": "Missing key or value"} without a
\* backend request exactly when the key is missing or the value is absent or
\* null, and otherwise forwards the request.
C3_AsStated ==
    lastOp.op = "set" =>
        /\ ValidationErrorReturned <=>
               (KeyAbsentOrNull(lastOp.body) \/ ValueAbsentOrNull(lastOp.body))
        /\ ~(KeyAbsentOrNull(lastOp.body) \/ ValueAbsentOrNull(lastOp.body))
               => Forwarded(lastOp.body)

\* C3 amended: setFact returns {"error": "Missing key or value"} without a
\* backend request exactly when the key is absent, null or falsy (the empty
\* string, 0, false) or the value is absent or null; a request with a
\* non-empty key and a value of 0, false or "" is forwarded to the backend
\* with that key and value under this agent's identity.
C3_Validation ==
    lastOp.op = "set" =>
        /\ ValidationErrorReturned <=>
               (KeyAbsentOrNull(lastOp.body) \/ KeyEmpty(lastOp.body)
                    \/ ValueAbsentOrNull(lastOp.body))
        /\ ~(KeyAbsentOrNull(lastOp.body) \/ KeyEmpty(lastOp.body)
                 \/ ValueAbsentOrNull(lastOp.body))
               => Forwarded(lastOp.body)

\* C3 witness: a setFact whose value is 0, false or "" was forwarded and
\* answered {"status": "ok"}
C3_Witness ==
    /\ lastOp.op = "set"
    /\ "value" \in DOMAIN lastOp.body
    /\ lastOp.body.value \in { PyInt(0), PyBool(FALSE), PyStr(<<>>) }
    /\ lastOp.sent # <<>>
    /\ factResult = [status |-> <<"ok">>]

IsErrorResult(res) == DOMAIN res = {"error"} /\ Len(res.error) > 0
SuccessResult(op, reply) ==
    IF op = "set" THEN [status |-> <<"ok">>]
    ELSE [value |-> IF reply.body.kind = "object" /\ "value" \in DOMAIN reply.body.obj
                    THEN reply.body.obj.value ELSE PyNone]

C5_RoundTrip ==
    (lastOp.op = "get" /\ lastOp.served /\ expect[lastOp.key] # Unknown)
        => factResult = [value |-> expect[lastOp.key]]


\* ------------------------------------------------------------ claims: /message

Range(f) == { f[i] : i \in DOMAIN f }
Succeeded(r) == pc[r] = "done" /\ "role" \in DOMAIN result[r]
Count(w, x) == Cardinality({ i \in DOMAIN w : w[i] = x })
\* index in the log of the entry pushed when the log held k entries
At(k) == Len(log) - k
FirstTen(l) == [i \in 1 .. (IF Len(l) < 10 THEN Len(l) ELSE 10) |-> l[i]]

\* C1: a handleMessage call with a non-empty message appends exactly two
\* entries on top of the log it found, the user record and directly in front
\* of it the agent record it returns, and the returned memory is the
\* most-recent-10 prefix of the log as it was right after the user push.
C1_TwoEntriesAndMemory ==
    \A r \in Reqs :
        Succeeded(r) =>
            /\ Count(who, << r, "user" >>) = 1 /\ Count(who, << r, "agent" >>) = 1
            /\ who[At(before[r])] = << r, "user" >>
            /\ who[At(before[r]) - 1] = << r, "agent" >>
            /\ log[At(before[r])].role = "user"
            /\ log[At(before[r])].content = data[r].message
            /\ log[At(before[r]) - 1] = result[r]
            /\ SubSeq(log, At(before[r]), Len(log)) = afterUser[r]
            /\ result[r].role = "agent"
            /\ result[r].memory = FirstTen(afterUser[r])

\* C1 witness: a call returned on a log that held ten entries before it, so
\* its memory is cut to ten of the eleven entries
C1_Witness ==
    \E r \in Reqs :
        /\ Succeeded(r)
        /\ Len(afterUser[r]) > 10
        /\ Len(result[r].memory) = 10
        /\ log[1] = result[r]

MessageAbsentOrEmpty(d) == "message" \notin DOMAIN d \/ d.message = PyStr(<<>>)

\* C2: a handleMessage call whose message is the empty string or absent
\* returns {"error": "Missing message"} and its step leaves the log as it was.
C2_MissingMessage ==
    [][\A r \in Reqs :
          (pc[r] = "await" /\ MessageAbsentOrEmpty(data[r]) /\ pc'[r] # "await")
              => /\ log' = log
                 /\ pc'[r] = "done"
                 /\ result'[r] = [error |-> <<"Missing message">>]]_vars

\* C2 witness: an empty message was rejected while the log held entries
C2_Witness ==
    \E r \in Reqs :
        /\ pc[r] = "done"
        /\ data[r] = [message |-> PyStr(<<>>)]
        /\ result[r] = [error |-> <<"Missing message">>]
        /\ log # <<>>

MidHandler(r) == pc[r] \in {"pushed", "read", "built"}
\* r1's memory holds r2's user record without r2's agent record although r2
\* did not fail
SnapshotSplits(r1, r2) ==
    /\ << r2, "user" >> \in Range(histWho[r1])
    /\ << r2, "agent" >> \notin Range(histWho[r1])
    /\ faultAt[r2] = "none"

\* C6 as stated: two concurrent requests of the same identity are not
\* serialized: while one is between its two pushes the other can push.
C6_AsStated ==
    \A r1, r2 \in Reqs :
        (r1 # r2 /\ MidHandler(r1) /\ pc[r2] = "await") => ENABLED PushUserOrReject(r2)

\* C6 amended: two concurrent requests of the same identity served by different
\* service processes are not serialized: while one is between its two pushes
\* the other can push, and a memory snapshot can hold the other request's user
\* record without its agent record; requests served by the same process never
\* interleave their pushes.
C6_NotSerializedAcrossProcesses ==
    \A r1, r2 \in Reqs :
        r1 # r2 =>
            /\ (MidHandler(r1) /\ pc[r2] = "await"
                    /\ \A r3 \in Reqs : MidHandler(r3) => proc[r3] # proc[r2])
                   => ENABLED PushUserOrReject(r2)
            /\ SnapshotSplits(r1, r2) => proc[r1] # proc[r2]

\* C6 witness: the log holds user1, user2, agent1, agent2 in insertion order
\* and request 1's memory holds user2 without agent2
C6_Witness ==
    /\ who = << << 2, "agent" >>, << 1, "agent" >>, << 2, "user" >>, << 1, "user" >> >>
    /\ SnapshotSplits(1, 2)
    /\ Succeeded(1) /\ Succeeded(2)

\* C7: under a non-decreasing clock the timestamps of the log never increase
\* from head to tail, and a request's agent record is never stamped earlier
\* than its user record.
C7_TimestampsOrdered ==
    /\ \A i \in 1 .. Len(log) - 1 : log[i].timestamp >= log[i + 1].timestamp
    /\ \A r \in Reqs :
           Succeeded(r) => result[r].timestamp >= log[At(before[r])].timestamp

\* C7 witness: the clock advanced between the two pushes of a request
C7_Witness ==
    \E r \in Reqs :
        /\ Succeeded(r)
        /\ result[r].timestamp = 1
        /\ log[At(before[r])].timestamp = 0

RECURSIVE CommaJoined(_)
CommaJoined(names) ==
    IF Len(names) = 0 THEN <<>>
    ELSE IF Len(names) = 1 THEN names[1]
    ELSE CommaJoined(SubSeq(names, 1, Len(names) - 1)) \o <<", ">> \o names[Len(names)]
ConfiguredContext ==
    IF "systemPrompt" \in DOMAIN AGENT_CONFIG THEN AGENT_CONFIG.systemPrompt ELSE <<>>
ConfiguredTools ==
    IF "tools" \in DOMAIN AGENT_CONFIG THEN AGENT_CONFIG.tools ELSE <<>>
NameOf(t) == IF "name" \in DOMAIN t THEN t.name ELSE <<>>

\* C8: the content of the returned agent record is "Echo: " + m +
\* "\nContext: " + c + "\nTools: " + the names of the configured tools in list
\* order joined by ", ", with c empty when no systemPrompt is configured and
\* no names when no tools are.
C8_Content ==
    \A r \in Reqs :
        Succeeded(r) =>
            result[r].content =
                <<"Echo: ">> \o data[r].message.s \o <<"\nContext: ">>
                    \o ConfiguredContext \o <<"\nTools: ">>
                    \o CommaJoined([i \in 1 .. Len(ConfiguredTools) |->
                                       NameOf(ConfiguredTools[i])])

\* C8 witness: the spec's scenario, systemPrompt "Be helpful", one tool
\* "search", message "hi"
C8_Witness ==
    \E r \in Reqs :
        /\ Succeeded(r)
        /\ AGENT_CONFIG = [systemPrompt |-> <<"Be helpful">>,
                           tools |-> << [name |-> <<"search">>] >>]
        /\ data[r] = [message |-> PyStr(<<"hi">>)]
        /\ result[r].content =
               <<"Echo: ", "hi", "\nContext: ", "Be helpful", "\nTools: ", "search">>

\* C9: a request ended by a store failure has no in-band response, and the
\* log keeps what it pushed before: nothing after a failed user push, its user
\* record alone, once, after a failed history read or agent push.
C9_StoreFault ==
    \A r \in Reqs :
        pc[r] = "fault" =>
            /\ "error" \notin DOMAIN result[r]
            /\ "role" \notin DOMAIN result[r]
            /\ Count(who, << r, "agent" >>) = 0
            /\ faultAt[r] = "userPush" => Count(who, << r, "user" >>) = 0
            /\ faultAt[r] \in {"historyRead", "agentPush"}
                   => Count(who, << r, "user" >>) = 1

\* C9 witness: the history read failed and the user record is in the log
C9_Witness ==
    \E r \in Reqs :
        /\ pc[r] = "fault"
        /\ faultAt[r] = "historyRead"
        /\ << r, "user" >> \in Range(who)

\* C10: with one service process, every returned memory has between one and
\* ten entries, does not hold the request's own agent record, and starts with
\* the request's own user record; every agent record in the log sits directly
\* in front of the user record of its own request.
C10_OneProcess ==
    /\ \A r \in Reqs :
           Succeeded(r) =>
               /\ Len(result[r].memory) \in 1 .. 10
               /\ << r, "agent" >> \notin Range(histWho[r])
               /\ histWho[r][1] = << r, "user" >>
               /\ result[r].memory[1].role = "user"
               /\ result[r].memory[1].content = data[r].message
    /\ \A i \in DOMAIN who :
           who[i][2] = "agent" => (i < Len(who) /\ who[i + 1] = << who[i][1], "user" >>)

\* C10 witness: two requests were in flight together in one process and both
\* returned
C10_Witness ==
    /\ procs = {1}
    /\ Succeeded(1) /\ Succeeded(2)
    /\ who[1] = << 1, "agent" >>
    /\ who[3] = << 2, "agent" >>

====
